---- MODULE Spec2Model ----
(***************************************************************************)
(* State-machine model of the pooled-troop game engine of src/server.js    *)
(* (class Game, ensureBots, the tick timer and the HTTP command handlers). *)
(*                                                                         *)
(* JavaScript values are modelled as follows.                              *)
(*   - null (an unowned cell) is the string NULL; player ids are strings.  *)
(*   - this.cells[i] is undefined exactly when i is outside 0..W*H-1; an   *)
(*     out-of-range x with an in-range index y*W+x resolves to a cell of   *)
(*     the neighbouring row, as in the code.                               *)
(*   - a TypeError thrown inside a request callback is uncaught: the       *)
(*     process ends.  The model keeps the mutations done before the throw  *)
(*     and sets crashed, after which no action is enabled.                 *)
(*   - a fraction is a pair <<num, den>>; Math.floor(total * percent) is   *)
(*     the exact floor (the double product agrees with it for every pool   *)
(*     below 80 and every fraction and divisor used here).                 *)
(*   - the legacy per-cell field troops is always 0 in this engine and is  *)
(*     left out; name and color of a player never influence control flow   *)
(*     and are not kept in the player records: they are written once, when *)
(*     the player is created, and are functions of the id (PlayerName,     *)
(*     PlayerColor) where serializeState reads them.                       *)
(*   - a callback (the timer's, a request's) is one action; SpecLoop runs  *)
(*     the tick and expand step by step under the run-to-completion rule   *)
(*     of the event loop.                                                  *)
(***************************************************************************)
EXTENDS Integers, Sequences, FiniteSets, TLC

\* ------------------------------------------------------------------------
\* Configuration (scaled down) and bounds
\* ------------------------------------------------------------------------
\* GRID_W / GRID_H are read from the land mask, an input file; the model
\* uses a 3 x 2 mask.
GRID_W == 3
GRID_H == 2
\* Roster capacity.  The code's default is 10; the model runs the same code
\* with capacity 3 (one bot is created on the first join).
MAX_PLAYERS_PER_GAME == 3
\* The capacity of the specification with two bots (both are created on the
\* first join, and a second client still gets in).
MAX_PLAYERS_TWO_BOTS == 4

\* Number of random cells a bot without territory samples in one tick.
SPAWN_SAMPLES == 50

\* Largest troop pool a spawn is allowed to produce (spawn adds 10 without
\* any cap in the code, so the pool is unbounded without this guard).
MaxTroops == 20
\* Number of calls (commands, joins, leaves, ticks) in one behaviour.
MaxSteps == 5
\* Number of calls in one behaviour of the specification whose clients send
\* any coordinates and any fractions.
MaxWideSteps == 3
\* Number of calls in one behaviour of the specification on the bay mask.
MaxBaySteps == 4
\* Number of calls other than ticks in one behaviour of the specification
\* whose timer never stops.
MaxTimerCalls == 2
\* Number of calls other than ticks in one behaviour of the specification
\* on the islet mask.
MaxIsletCalls == 3
\* Number of calls in one behaviour of the specification with two bots.
MaxTwoBotsSteps == 4
\* Number of callbacks in one behaviour of the specification that runs the
\* tick and expand step by step.
MaxLoopSteps == 4

NULL == "null"
\* ids of human players ('h3' finds the roster full and never gets in)
HumanSeq == <<"h1", "h2", "h3">>
HumanIds == {HumanSeq[k] : k \in DOMAIN HumanSeq}
\* ids given to the bots, in order of creation ('bot-' + random suffix)
BotNames == <<"bot-1", "bot-2", "bot-3", "bot-4">>

NumCells == GRID_W * GRID_H
Indices == 0 .. (NumCells - 1)

\* The land mask of the model: a strait, column 1 is water.
MaskStrait == [i \in Indices |-> (i % GRID_W) # 1]
\* A second land mask: a bay, only the cell (2,0) is water, so that the
\* cells of column 0 are land without a water neighbour.
MaskBay == [i \in Indices |-> i # GRID_W - 1]

\* A third land mask: an islet, only the cell (0,0) is land, so that one
\* spawn leaves no unowned land cell.
MaskIslet == [i \in Indices |-> i = 0]

\* Fractions a client sends, all in (0,1].
Fractions == {<<1, 2>>, <<1, 1>>}
\* Coordinates a client sends.
XS == 0 .. (GRID_W - 1)
YS == 0 .. (GRID_H - 1)
\* What the request body may hold: the handlers pass x, y and troopsPercent
\* on as they come, so one coordinate off the grid on each side and
\* fractions below, at and above the range 0..1.
WideXS == (0 - 1) .. GRID_W
WideYS == (0 - 1) .. GRID_H
WideFractions == Fractions \cup {<<0 - 1, 2>>, <<0, 1>>, <<3, 2>>, <<2, 1>>}

VARIABLES
  landMask,  \* landMask[i]: cell i is land (immutable input)
  maxPlayers, \* MAX_PLAYERS_PER_GAME of this server (immutable)
  cells,     \* this.cells: index -> [owner, port, city]
  players,   \* this.players: id -> [cells, troops]
  bots,      \* this.bots: the bots' ids, in creation order
  crashed,   \* an uncaught exception ended the process
  steps,     \* number of calls made so far
  last,      \* the last call: what was called and what it returned
  prev,      \* the world as it was when the last call was made
  loop       \* the callback under way, and what the clients were last sent

vars == <<landMask, maxPlayers, cells, players, bots, crashed, steps, last, prev, loop>>

\* ------------------------------------------------------------------------
\* Helpers
\* ------------------------------------------------------------------------
Abs(n) == IF n < 0 THEN 0 - n ELSE n
Sign(n) == IF n < 0 THEN 0 - 1 ELSE IF n > 0 THEN 1 ELSE 0
Max(a, b) == IF a >= b THEN a ELSE b
Min(a, b) == IF a <= b THEN a ELSE b

\* idx = y * GRID_W + x
Idx(x, y) == y * GRID_W + x
\* this.cells[i] is not undefined
Defined(i) == i \in Indices
\* the bounds test of the neighbour loops, negated
InGrid(x, y) == ~(x < 0 \/ y < 0 \/ x >= GRID_W \/ y >= GRID_H)

\* Math.floor(total * percent), percent = <<num, den>> with den > 0
FloorMul(total, percent) == (total * percent[1]) \div percent[2]

World == [cells |-> cells, players |-> players]

\* the value of a call: the world it leaves, what it returns ("true",
\* "false", or "throw" for an uncaught TypeError), the troops sent and the
\* branch taken
Result(c, p, ret, sent, outcome) ==
  [cells |-> c, players |-> p, ret |-> ret, sent |-> sent, outcome |-> outcome,
   subs |-> <<>>]

NoArgs == [id |-> NULL, srcX |-> 0, srcY |-> 0, dstX |-> 0, dstY |-> 0,
           percent |-> <<0, 1>>]
Args(id, srcX, srcY, dstX, dstY, percent) ==
  [id |-> id, srcX |-> srcX, srcY |-> srcY, dstX |-> dstX, dstY |-> dstY,
   percent |-> percent]

\* ------------------------------------------------------------------------
\* Game.addPlayer, ensureBots, Game.removePlayer
\* ------------------------------------------------------------------------
NewPlayer == [cells |-> {}, troops |-> 0]

\* p with the entry id added (or replaced)
WithPlayer(p, id, rec) ==
  [k \in (DOMAIN p) \cup {id} |-> IF k = id THEN rec ELSE p[k]]

\* mutant of RosterFull: one player more than the capacity gets in
RosterFullOffByOne(p) == Cardinality(DOMAIN p) > maxPlayers

RosterFull(p) == Cardinality(DOMAIN p) >= maxPlayers

\* ensureBots: while (bots.length + |players| < MAX) push a new bot
RECURSIVE EnsureBots(_, _)
EnsureBots(p, b) ==
  IF Len(b) + Cardinality(DOMAIN p) < maxPlayers
  THEN EnsureBots(WithPlayer(p, BotNames[Len(b) + 1], NewPlayer),
                  Append(b, BotNames[Len(b) + 1]))
  ELSE [players |-> p, bots |-> b]

FreedCell == [owner |-> NULL, port |-> FALSE, city |-> FALSE]

\* mutant of RemovePlayerCells: the owner is cleared, port and city are not
RemovePlayerCellsKeepFlags(c, p, id) ==
  [i \in Indices |-> IF i \in p[id].cells THEN [c[i] EXCEPT !.owner = NULL]
                     ELSE c[i]]

\* removePlayer: every cell of player.cells is reset, the player deleted
RemovePlayerCells(c, p, id) ==
  [i \in Indices |-> IF i \in p[id].cells THEN FreedCell ELSE c[i]]

\* mutant of RemovePlayerRoster: the cells are freed, the player stays
RemovePlayerRosterKept(p, id) == p

RemovePlayerRoster(p, id) == [k \in (DOMAIN p) \ {id} |-> p[k]]

\* ------------------------------------------------------------------------
\* Game.spawn
\* ------------------------------------------------------------------------
ClaimedCell(id) == [owner |-> id, port |-> FALSE, city |-> FALSE]

\* mutant of SpawnBonus: the pool is set to the bonus
SpawnBonusReset(troops) == 10

\* player.troops += 10
SpawnBonus(troops) == troops + 10

SpawnOn(w, id, x, y) ==
  LET idx == Idx(x, y) IN
  IF ~Defined(idx)
  THEN Result(w.cells, w.players, "throw", 0, "nocell")
  ELSE IF ~landMask[idx] \/ w.cells[idx].owner # NULL
  THEN Result(w.cells, w.players, "false", 0, "taken")
  ELSE IF id \notin DOMAIN w.players
  THEN Result([w.cells EXCEPT ![idx] = ClaimedCell(id)], w.players,
              "throw", 0, "noplayer")
  ELSE Result([w.cells EXCEPT ![idx] = ClaimedCell(id)],
              [w.players EXCEPT ![id].cells = @ \cup {idx},
                                ![id].troops = SpawnBonus(@)],
              "true", 0, "spawned")

\* ------------------------------------------------------------------------
\* Game.attack
\* ------------------------------------------------------------------------
\* the movement check: adjacent, or two steps from a port over water
MoveOk(w, srcX, srcY, dstX, dstY) ==
  LET srcIdx == Idx(srcX, srcY)
      dstIdx == Idx(dstX, dstY)
      dx == dstX - srcX
      dy == dstY - srcY
      maxStep == Max(Abs(dx), Abs(dy))
      midIdx == Idx(srcX + Sign(dx), srcY + Sign(dy))
  IN IF maxStep # 1
     THEN IF maxStep = 2 /\ w.cells[srcIdx].port
          THEN /\ Defined(midIdx)
               /\ ~landMask[midIdx]
               /\ Defined(dstIdx)
               /\ landMask[dstIdx]
          ELSE FALSE
     ELSE TRUE

\* toSend = Math.floor(totalTroops * percent)
ToSend(totalTroops, percent) == FloorMul(totalTroops, percent)

\* mutant of Debit: the troops sent are not taken from the pool
DebitForgotten(p, id, toSend) == p

\* player.troops -= toSend
Debit(p, id, toSend) == [p EXCEPT ![id].troops = @ - toSend]

\* mutant of BattleWon: a tie goes to the attacker
BattleWonOnTie(toSend, defenderTroops) == toSend >= defenderTroops

\* the battle is won by the attacker
BattleWon(toSend, defenderTroops) == toSend > defenderTroops

\* mutant of CaptureCell: port and city survive the capture
CaptureCellKeepFlags(c, id, dstIdx) == [c EXCEPT ![dstIdx].owner = id]

\* mutant of AddCell: the captured cell is not added to the territory
AddCellForgotten(p, id, dstIdx) == p

\* dstCell.owner = id; port = city = false; player.cells.add(dstIdx)
CaptureCell(c, id, dstIdx) == [c EXCEPT ![dstIdx] = ClaimedCell(id)]
AddCell(p, id, dstIdx) == [p EXCEPT ![id].cells = @ \cup {dstIdx}]

\* mutant of DefeatDefender: the cell stays in the defender's territory
DefeatDefenderKeepCell(p, defenderId, dstIdx) ==
  [p EXCEPT ![defenderId].troops = 0]

\* defender.troops = 0; defender.cells.delete(dstIdx)
DefeatDefender(p, defenderId, dstIdx) ==
  [p EXCEPT ![defenderId].troops = 0, ![defenderId].cells = @ \ {dstIdx}]

\* defender.troops -= toSend
DamageDefender(p, defenderId, toSend) ==
  [p EXCEPT ![defenderId].troops = @ - toSend]

AttackOn(w, id, srcX, srcY, dstX, dstY, percent) ==
  LET srcIdx == Idx(srcX, srcY)
      dstIdx == Idx(dstX, dstY)
      fail(tag) == Result(w.cells, w.players, "false", 0, tag)
  IN
  IF id \notin DOMAIN w.players \/ ~Defined(srcIdx) \/ w.cells[srcIdx].owner # id
  THEN fail("badsrc")
  ELSE IF ~MoveOk(w, srcX, srcY, dstX, dstY)
  THEN fail("geometry")
  ELSE
    LET toSend == ToSend(w.players[id].troops, percent)
        paid == Debit(w.players, id, toSend)
    IN
    IF toSend < 1 THEN fail("nosend")
    ELSE IF ~Defined(dstIdx)
    THEN Result(w.cells, paid, "throw", toSend, "nodst")
    ELSE IF w.cells[dstIdx].owner = NULL
    THEN Result(CaptureCell(w.cells, id, dstIdx), AddCell(paid, id, dstIdx),
                "true", toSend, "captured_free")
    ELSE IF w.cells[dstIdx].owner = id
    THEN Result(w.cells, paid, "false", toSend, "own")
    ELSE
      LET defenderId == w.cells[dstIdx].owner IN
      IF defenderId \notin DOMAIN paid
      THEN Result(w.cells, paid, "false", toSend, "nodefender")
      ELSE IF BattleWon(toSend, paid[defenderId].troops)
      THEN Result(CaptureCell(w.cells, id, dstIdx),
                  AddCell(DefeatDefender(paid, defenderId, dstIdx), id, dstIdx),
                  "true", toSend, "captured_enemy")
      ELSE Result(w.cells, DamageDefender(paid, defenderId, toSend),
                  "true", toSend, "repelled")

\* ------------------------------------------------------------------------
\* Game.expand
\* ------------------------------------------------------------------------
\* the offsets (i, j) of the neighbour loops, j outer, i inner, (0,0) skipped
NeighbourOffsets ==
  << <<0 - 1, 0 - 1>>, <<0, 0 - 1>>, <<1, 0 - 1>>,
     <<0 - 1, 0>>, <<1, 0>>,
     <<0 - 1, 1>>, <<0, 1>>, <<1, 1>> >>

\* const dirs = [...]
Dirs ==
  << <<0 - 1, 0>>, <<1, 0>>, <<0, 0 - 1>>, <<0, 1>>,
     <<0 - 1, 0 - 1>>, <<0 - 1, 1>>, <<1, 0 - 1>>, <<1, 1>> >>

\* the neighbours of (x, y) inside the grid that id does not own
AdjacentTargets(w, id, x, y) ==
  LET keep(o) == /\ InGrid(x + o[1], y + o[2])
                 /\ w.cells[Idx(x + o[1], y + o[2])].owner # id
      kept == SelectSeq(NeighbourOffsets, keep)
  IN [k \in DOMAIN kept |-> <<x + kept[k][1], y + kept[k][2]>>]

\* the port jumps from (x, y): two steps along a direction, over water, onto
\* a land cell that id does not own
JumpTargets(w, id, x, y) ==
  LET keep(d) ==
        /\ InGrid(x + 2 * d[1], y + 2 * d[2])
        /\ Defined(Idx(x + d[1], y + d[2]))
        /\ ~landMask[Idx(x + d[1], y + d[2])]
        /\ landMask[Idx(x + 2 * d[1], y + 2 * d[2])]
        /\ w.cells[Idx(x + 2 * d[1], y + 2 * d[2])].owner # id
      kept == SelectSeq(Dirs, keep)
  IN [k \in DOMAIN kept |-> <<x + 2 * kept[k][1], y + 2 * kept[k][2]>>]

ExpandTargets(w, id, x, y) ==
  AdjacentTargets(w, id, x, y)
    \o (IF w.cells[Idx(x, y)].port THEN JumpTargets(w, id, x, y) ELSE <<>>)

\* mutant of PerTarget: every sub-attack is given the whole fraction
PerTargetUndivided(percent, n) == percent

\* const per = percent / targets.length
PerTarget(percent, n) == <<percent[1], percent[2] * n>>

\* mutant of AnyOk: every sub-attack has to succeed
AnyOkAll(any, ok) == any /\ ok

\* any = any || ok
AnyOk(any, ok) == any \/ ok

\* for (const t of targets) this.attack(id, x, y, t.x, t.y, per): the result
\* after the targets k.. of the loop, acc being the result before them
RECURSIVE ExpandLoop(_, _, _, _, _, _, _)
ExpandLoop(acc, id, x, y, targets, per, k) ==
  IF k > Len(targets) \/ acc.ret = "throw"
  THEN acc
  ELSE LET r == AttackOn(acc, id, x, y, targets[k][1], targets[k][2], per)
       IN ExpandLoop(
            [cells |-> r.cells, players |-> r.players,
             ret |-> IF r.ret = "throw" THEN "throw"
                     ELSE IF AnyOk(acc.ret = "true", r.ret = "true") THEN "true"
                     ELSE "false",
             sent |-> acc.sent + r.sent,
             outcome |-> "expanded",
             subs |-> Append(acc.subs,
                             [dst |-> Idx(targets[k][1], targets[k][2]),
                              pool |-> acc.players[id].troops,
                              sent |-> r.sent, ret |-> r.ret,
                              outcome |-> r.outcome])],
            id, x, y, targets, per, k + 1)

ExpandOn(w, id, x, y, percent) ==
  LET srcIdx == Idx(x, y) IN
  IF ~Defined(srcIdx) \/ w.cells[srcIdx].owner # id
  THEN Result(w.cells, w.players, "false", 0, "badsrc")
  ELSE IF id \notin DOMAIN w.players
  THEN Result(w.cells, w.players, "false", 0, "noplayer")
  ELSE LET targets == ExpandTargets(w, id, x, y) IN
       IF Len(targets) = 0
       THEN Result(w.cells, w.players, "false", 0, "notargets")
       ELSE ExpandLoop(Result(w.cells, w.players, "false", 0, "expanded"),
                       id, x, y, targets, PerTarget(percent, Len(targets)), 1)

\* ------------------------------------------------------------------------
\* Game.buildPort, Game.buildCity
\* ------------------------------------------------------------------------
\* mutant of AdjacentWater: the neighbours are not looked at
AdjacentWaterAssumed(x, y) == InGrid(x, y)

\* the loop of buildPort over the neighbours inside the grid
AdjacentWater(x, y) ==
  \E k \in DOMAIN NeighbourOffsets :
    LET nx == x + NeighbourOffsets[k][1]
        ny == y + NeighbourOffsets[k][2]
    IN InGrid(nx, ny) /\ ~landMask[Idx(nx, ny)]

\* the cell can take a port / a city of player id
PortSite(w, id, idx) ==
  ~(~Defined(idx) \/ w.cells[idx].owner # id \/ ~landMask[idx] \/ w.cells[idx].port)

\* mutant of CitySite: the terrain of the cell is not looked at
CitySiteAnyTerrain(w, id, idx) ==
  ~(~Defined(idx) \/ w.cells[idx].owner # id \/ w.cells[idx].city)

CitySite(w, id, idx) ==
  ~(~Defined(idx) \/ w.cells[idx].owner # id \/ ~landMask[idx] \/ w.cells[idx].city)

\* mutant of CanPay: the pool is not compared with the cost
CanPayAnyPool(p, id, cost) == id \in DOMAIN p

\* the player exists and can pay
CanPay(p, id, cost) == ~(id \notin DOMAIN p \/ p[id].troops < cost)

BuildPortOn(w, id, x, y) ==
  LET idx == Idx(x, y) IN
  IF ~PortSite(w, id, idx)
  THEN Result(w.cells, w.players, "false", 0, "badsite")
  ELSE IF ~AdjacentWater(x, y)
  THEN Result(w.cells, w.players, "false", 0, "nowater")
  ELSE IF ~CanPay(w.players, id, 5)
  THEN Result(w.cells, w.players, "false", 0, "poor")
  ELSE Result([w.cells EXCEPT ![idx].port = TRUE],
              [w.players EXCEPT ![id].troops = @ - 5], "true", 0, "built")

BuildCityOn(w, id, x, y) ==
  LET idx == Idx(x, y) IN
  IF ~CitySite(w, id, idx)
  THEN Result(w.cells, w.players, "false", 0, "badsite")
  ELSE IF ~CanPay(w.players, id, 10)
  THEN Result(w.cells, w.players, "false", 0, "poor")
  ELSE Result([w.cells EXCEPT ![idx].city = TRUE],
              [w.players EXCEPT ![id].troops = @ - 10], "true", 0, "built")

\* ------------------------------------------------------------------------
\* Game.update, Game.botAct
\* ------------------------------------------------------------------------
CityCount(c, pl) == Cardinality({i \in pl.cells : c[i].city})

\* maxTroops = 5 + floor(territorySize / 2) + cityCount * 5
MaxTroopsOf(c, pl) == 5 + (Cardinality(pl.cells) \div 2) + CityCount(c, pl) * 5

\* mutant of Growth: no minimum of one troop
GrowthUnfloored(troops) == troops \div 3

\* growth = max(1, floor(troops / 3))
Growth(troops) == Max(1, troops \div 3)

\* mutant of Grown: the pool is capped but does not grow
GrownStalled(c, pl) == Min(pl.troops, MaxTroopsOf(c, pl))

\* player.troops = min(player.troops + growth, maxTroops)
Grown(c, pl) == Min(pl.troops + Growth(pl.troops), MaxTroopsOf(c, pl))

\* the first loop of update
GrowAll(c, p) == [id \in DOMAIN p |-> [p[id] EXCEPT !.troops = Grown(c, p[id])]]

\* the targets botAct gathers from (x, y)
PossibleTargets(w, botId, x, y) ==
  LET keepN(o) == /\ InGrid(x + o[1], y + o[2])
                  /\ w.cells[Idx(x + o[1], y + o[2])].owner # botId
      keptN == SelectSeq(NeighbourOffsets, keepN)
      keepJ(d) ==
        /\ InGrid(x + 2 * d[1], y + 2 * d[2])
        /\ Defined(Idx(x + d[1], y + d[2]))
        /\ ~landMask[Idx(x + d[1], y + d[2])]
        /\ landMask[Idx(x + 2 * d[1], y + 2 * d[2])]
        /\ w.cells[Idx(x + 2 * d[1], y + 2 * d[2])].owner # botId
      keptJ == SelectSeq(Dirs, keepJ)
  IN [k \in DOMAIN keptN |-> <<x + keptN[k][1], y + keptN[k][2]>>]
       \o (IF w.cells[Idx(x, y)].port
           THEN [k \in DOMAIN keptJ |-> <<x + 2 * keptJ[k][1], y + 2 * keptJ[k][2]>>]
           ELSE <<>>)

\* what one bot did in a tick
BotLog(botId, kind, pool, src, dst, r) ==
  [bot |-> botId, kind |-> kind, pool |-> pool, src |-> src, dst |-> dst,
   sent |-> r.sent, ret |-> r.ret, outcome |-> r.outcome]

\* the troops a bot has after claiming its first cell
BotSpawnTroops(troops) == 10

\* mutant of BotToSend: the bot commits its whole pool
BotToSendAll(troops) == troops

\* toSend = Math.floor(bot.troops / 2)
BotToSend(troops) == troops \div 2

\* mutant of FreeLand: the bot claims any unowned cell, water too
FreeLandAnyTerrain(w, j) == w.cells[j].owner = NULL

\* cell.land && !cell.owner
FreeLand(w, j) == landMask[j] /\ w.cells[j].owner = NULL

\* for (let i = 0; i < 50; i++): the worlds the samples i, i + 1, ... can
\* leave.  A sample that finds a free land cell claims it and ends the loop
\* (which sample it was is not kept); a sample that finds water or an owned
\* cell is followed by the next one; after the last one the bot has done
\* nothing, and the log says how many samples were drawn.
RECURSIVE BotSpawn(_, _, _)
BotSpawn(w, botId, i) ==
  IF ~(i < SPAWN_SAMPLES)
  THEN { [w EXCEPT
            !.subs = Append(@, BotLog(botId, "nospawn", w.players[botId].troops, 0, 0,
                                      Result(w.cells, w.players, "none", 0, "nospawn"))
                               @@ [samples |-> i])] }
  ELSE { [w EXCEPT
            !.cells = [@ EXCEPT ![idx] = ClaimedCell(botId)],
            !.players = [@ EXCEPT ![botId].cells = @ \cup {idx},
                                  ![botId].troops = BotSpawnTroops(@)],
            !.subs = Append(@, BotLog(botId, "spawn", w.players[botId].troops, idx, idx,
                                      Result(w.cells, w.players, "none", 0, "spawned")))]
         : idx \in {j \in Indices : FreeLand(w, j)} }
       \cup (IF \E j \in Indices : ~FreeLand(w, j)
             THEN BotSpawn(w, botId, i + 1)
             ELSE {})

\* The worlds botAct can leave from w, one per outcome of its random draws;
\* each carries the log of the bots that acted so far in this tick.
BotAct(w, botId) ==
  LET bot == w.players[botId]
      quiet(kind) ==
        [w EXCEPT !.subs = Append(@, BotLog(botId, kind, bot.troops, 0, 0,
                                            Result(w.cells, w.players, "none", 0, kind)))]
  IN
  IF Cardinality(bot.cells) = 0
  THEN BotSpawn(w, botId, 0)
  ELSE \* a random cell of the bot, its targets, one of them attacked
       UNION {
         UNION {
           IF Len(possibleTargets) = 0 THEN {quiet("notargets")}
           ELSE IF BotToSend(bot.troops) < 1 THEN {quiet("nosend")}
           ELSE UNION {
                  { [w EXCEPT !.cells = r.cells, !.players = r.players,
                              !.subs = Append(@, BotLog(botId, "attack", bot.troops,
                                                        srcIdx, Idx(t[1], t[2]), r))]
                    : r \in {AttackOn(w, botId, srcIdx % GRID_W, srcIdx \div GRID_W,
                                      t[1], t[2],
                                      <<BotToSend(bot.troops), bot.troops>>)} }
                  : t \in {possibleTargets[k] : k \in DOMAIN possibleTargets} }
           : possibleTargets \in {PossibleTargets(w, botId, srcIdx % GRID_W,
                                                  srcIdx \div GRID_W)} }
         : srcIdx \in bot.cells }

\* for (const bot of this.bots) this.botAct(bot)
RECURSIVE BotsAct(_, _, _)
BotsAct(ws, b, k) ==
  IF k > Len(b) THEN ws
  ELSE BotsAct(UNION {BotAct(w, b[k]) : w \in ws}, b, k + 1)

\* mutant of Update: only the first bot of the list acts
UpdateFirstBotOnly(w, b) ==
  BotsAct({[cells |-> w.cells, players |-> GrowAll(w.cells, w.players),
            ret |-> "none", sent |-> 0, outcome |-> "tick", subs |-> <<>>,
            grown |-> [cells |-> w.cells,
                       players |-> GrowAll(w.cells, w.players)]]},
          SubSeq(b, 1, Min(1, Len(b))), 1)

\* update: growth for every player, then every bot acts once
Update(w, b) ==
  BotsAct({[cells |-> w.cells, players |-> GrowAll(w.cells, w.players),
            ret |-> "none", sent |-> 0, outcome |-> "tick", subs |-> <<>>,
            grown |-> [cells |-> w.cells,
                       players |-> GrowAll(w.cells, w.players)]]}, b, 1)

\* ------------------------------------------------------------------------
\* Game.serializeState
\* ------------------------------------------------------------------------
\* name and color of a player are set when the player is created and never
\* written again: a bot is called 'Bot', the clients of the model send no
\* name and are called 'Anonyme'; the hue drawn for the color is a fixed
\* one for each id.
PlayerName(id) ==
  IF id \in {BotNames[k] : k \in DOMAIN BotNames} THEN "Bot" ELSE "Anonyme"
PlayerColor(id) ==
  CHOOSE hue \in 0 .. 359 :
    \/ \E k \in DOMAIN HumanSeq : HumanSeq[k] = id /\ hue = 40 * k
    \/ \E k \in DOMAIN BotNames : BotNames[k] = id /\ hue = 180 + 40 * k
    \/ /\ id \notin HumanIds \cup {BotNames[k] : k \in DOMAIN BotNames}
       /\ hue = 0

\* mutant of SerializeState: the players without territory are left out
SerializeStateOwnersOnly(w) ==
  [gridW |-> GRID_W,
   gridH |-> GRID_H,
   cells |-> [k \in 1 .. NumCells |->
                [land |-> landMask[k - 1], owner |-> w.cells[k - 1].owner,
                 troops |-> 0, port |-> w.cells[k - 1].port,
                 city |-> w.cells[k - 1].city]],
   players |-> [pid \in {q \in DOMAIN w.players : w.players[q].cells # {}} |->
                  [id |-> pid, name |-> PlayerName(pid),
                   color |-> PlayerColor(pid), troops |-> w.players[pid].troops]]]

\* serializeState: the grid size, one entry per cell in index order (the
\* JavaScript array starts at 0, the sequence at 1; cell.troops is the legacy
\* field, always 0) and one entry per player of the roster
SerializeState(w) ==
  [gridW |-> GRID_W,
   gridH |-> GRID_H,
   cells |-> [k \in 1 .. NumCells |->
                [land |-> landMask[k - 1], owner |-> w.cells[k - 1].owner,
                 troops |-> 0, port |-> w.cells[k - 1].port,
                 city |-> w.cells[k - 1].city]],
   players |-> [pid \in DOMAIN w.players |->
                  [id |-> pid, name |-> PlayerName(pid),
                   color |-> PlayerColor(pid), troops |-> w.players[pid].troops]]]

\* what loop.snapshot holds before anything was sent
NoSnapshot == [gridW |-> 0, gridH |-> 0, cells |-> <<>>, players |-> <<>>]

\* ------------------------------------------------------------------------
\* The calls as actions
\* ------------------------------------------------------------------------
\* ids a client sends with a command: the server accepts any id, a bot's too
CmdIds == HumanIds \cup {BotNames[1]}

\* A call that leaves the world as it was is not continued: every call that
\* could follow it could have been made in its place, from the same world.
Idle == last.op # "new" /\ ~last.changed

Running == ~crashed /\ ~Idle /\ steps < MaxSteps

\* What a call found when it was made, read from the world it was made in
\* (kept in last, so that a rejected call can be judged without keeping its
\* arguments): the cell addressed, the caller, and for expand the number of
\* cells expand takes as targets.
NoFacts ==
  [inGrid |-> FALSE, member |-> FALSE, owned |-> FALSE, land |-> FALSE,
   free |-> FALSE, built |-> FALSE, water |-> FALSE, rich |-> FALSE,
   targets |-> 0]

\* Chebyshev distance between two cells of the grid
CellDistance(i, j) ==
  Max(Abs((i % GRID_W) - (j % GRID_W)), Abs((i \div GRID_W) - (j \div GRID_W)))

\* the cells expand makes a target from cell i for player id:
\* not owned by id, and a Moore neighbour or a port jump along a line
EligibleTargets(id, i) ==
  { j \in Indices :
      /\ cells[j].owner # id
      /\ \/ CellDistance(i, j) = 1
         \/ /\ CellDistance(i, j) = 2
            /\ Abs((i % GRID_W) - (j % GRID_W)) \in {0, 2}
            /\ Abs((i \div GRID_W) - (j \div GRID_W)) \in {0, 2}
            /\ cells[i].port
            /\ ~landMask[(i + j) \div 2]
            /\ landMask[j] }

\* (the cell is looked at for a caller of the roster only)
SpawnFacts(id, x, y) ==
  IF ~InGrid(x, y) THEN NoFacts
  ELSE IF id \notin DOMAIN players THEN [NoFacts EXCEPT !.inGrid = TRUE]
  ELSE [NoFacts EXCEPT !.inGrid = TRUE,
                       !.member = TRUE,
                       !.land = landMask[Idx(x, y)],
                       !.free = cells[Idx(x, y)].owner = NULL]

\* built: the cell already has the port (flag "port") or the city ("city");
\* the cell and the pool are looked at for the owner of the cell only
BuildFacts(id, x, y, flag, cost) ==
  IF ~InGrid(x, y) THEN NoFacts
  ELSE IF cells[Idx(x, y)].owner # id THEN [NoFacts EXCEPT !.inGrid = TRUE]
  ELSE [NoFacts EXCEPT
          !.inGrid = TRUE,
          !.owned = cells[Idx(x, y)].owner = id,
          !.land = landMask[Idx(x, y)],
          !.built = IF flag = "port" THEN cells[Idx(x, y)].port
                    ELSE cells[Idx(x, y)].city,
          !.water = \E j \in Indices :
                      CellDistance(Idx(x, y), j) = 1 /\ ~landMask[j],
          !.rich = IF id \in DOMAIN players THEN players[id].troops >= cost
                   ELSE FALSE]

\* for attack: both cells addressed lie in the grid
AttackFacts(srcX, srcY, dstX, dstY) ==
  [NoFacts EXCEPT !.inGrid = InGrid(srcX, srcY) /\ InGrid(dstX, dstY)]

ExpandFacts(id, x, y) ==
  IF ~InGrid(x, y) THEN NoFacts
  ELSE IF cells[Idx(x, y)].owner # id THEN [NoFacts EXCEPT !.inGrid = TRUE]
  ELSE [NoFacts EXCEPT
          !.inGrid = TRUE,
          !.owned = cells[Idx(x, y)].owner = id,
          !.targets = Cardinality(EligibleTargets(id, Idx(x, y)))]

\* what last.grown holds for a call that is not a tick
NoGrowth == [cells |-> <<>>, players |-> <<>>]

\* loop between two callbacks: no callback is under way (pc), and the clients
\* were last sent snapshot, which was taken at sentAt ("never": nothing sent
\* yet; "idle": a client subscribed between two callbacks; "tickend": the
\* broadcast of a tick, after update returned; otherwise the pc of the
\* callback that was under way); ticks counts the calls of update that
\* started, broadcasts the calls of broadcastState.
LoopIdle(snapshot, sentAt, ticks, broadcasts) ==
  [pc |-> "idle", k |-> 0, acc |-> <<>>, call |-> NoArgs, targets |-> <<>>,
   facts |-> NoFacts, snapshot |-> snapshot, sentAt |-> sentAt,
   ticks |-> ticks, broadcasts |-> broadcasts]

\* the part of a call kept in last: the arguments are kept only when the
\* call got past its first validation; grown is the world after the growth
\* loop of a tick
Record(op, args, facts, r) ==
  [op |-> op, args |-> args, ret |-> r.ret, sent |-> r.sent,
   outcome |-> r.outcome, subs |-> r.subs,
   changed |-> (r.cells # cells \/ r.players # players),
   facts |-> facts,
   grown |-> IF "grown" \in DOMAIN r THEN r.grown ELSE NoGrowth]

Apply(op, args, facts, r) ==
  /\ cells' = r.cells
  /\ players' = r.players
  /\ crashed' = (r.ret = "throw")
  /\ steps' = steps + 1
  /\ last' = Record(op, args, facts, r)
  /\ prev' = World
  /\ UNCHANGED <<landMask, maxPlayers, bots, loop>>

\* POST /api/join: addPlayer with a fresh id, then ensureBots
\* the id of the next client to join (ids are fresh and interchangeable)
NextHuman ==
  HumanSeq[CHOOSE k \in DOMAIN HumanSeq :
             /\ HumanSeq[k] \notin DOMAIN players
             /\ \A j \in 1 .. (k - 1) : HumanSeq[j] \in DOMAIN players]

Join ==
  /\ Running
  /\ HumanIds \ DOMAIN players # {}
  /\ IF RosterFull(players)
     THEN Apply("join", NoArgs, NoFacts, Result(cells, players, "false", 0, "full"))
     ELSE LET e == EnsureBots(WithPlayer(players, NextHuman, NewPlayer), bots) IN
          /\ cells' = cells
          /\ players' = e.players
          /\ bots' = e.bots
          /\ crashed' = FALSE
          /\ steps' = steps + 1
          /\ last' = Record("join", [NoArgs EXCEPT !.id = NextHuman], NoFacts,
                            Result(cells, e.players, "true", 0, "joined"))
          /\ prev' = World
          /\ UNCHANGED <<landMask, maxPlayers, loop>>

\* the event stream of a player closes: removePlayer for a non-bot id
Leave ==
  /\ Running
  /\ \E id \in HumanIds :
       IF id \notin DOMAIN players
       THEN Apply("leave", NoArgs, NoFacts,
                  Result(cells, players, "none", 0, "unknown"))
       ELSE Apply("leave", [NoArgs EXCEPT !.id = id], NoFacts,
                  Result(RemovePlayerCells(cells, players, id),
                         RemovePlayerRoster(players, id), "none", 0, "removed"))

\* The commands, for the coordinates X x Y and the fractions F a client may
\* send; go is the condition under which the model makes the call.
SpawnIn(go, X, Y) ==
  /\ go
  /\ \E id \in CmdIds, x \in X, y \in Y :
       LET r == SpawnOn(World, id, x, y) IN
       /\ r.ret = "true" => r.players[id].troops <= MaxTroops
       /\ Apply("spawn",
                IF r.outcome \in {"nocell", "taken"} THEN NoArgs
                ELSE Args(id, x, y, x, y, <<0, 1>>),
                SpawnFacts(id, x, y), r)

AttackIn(go, X, Y, F) ==
  /\ go
  /\ \E id \in CmdIds, srcX \in X, srcY \in Y :
       IF AttackOn(World, id, srcX, srcY, 0, 0, <<1, 1>>).outcome = "badsrc"
       THEN Apply("attack", NoArgs, AttackFacts(srcX, srcY, 0, 0),
                  AttackOn(World, id, srcX, srcY, 0, 0, <<1, 1>>))
       ELSE \E dstX \in X, dstY \in Y, percent \in F :
              LET r == AttackOn(World, id, srcX, srcY, dstX, dstY, percent) IN
              Apply("attack",
                    IF r.outcome \in {"geometry", "nosend"} THEN NoArgs
                    ELSE Args(id, srcX, srcY, dstX, dstY, percent),
                    AttackFacts(srcX, srcY, dstX, dstY), r)

ExpandIn(go, X, Y, F) ==
  /\ go
  /\ \E id \in CmdIds, x \in X, y \in Y :
       IF ExpandOn(World, id, x, y, <<1, 1>>).outcome # "expanded"
       THEN Apply("expand", NoArgs, ExpandFacts(id, x, y),
                  ExpandOn(World, id, x, y, <<1, 1>>))
       ELSE \E percent \in F :
              Apply("expand", Args(id, x, y, x, y, percent),
                    ExpandFacts(id, x, y), ExpandOn(World, id, x, y, percent))

BuildPortIn(go, X, Y) ==
  /\ go
  /\ \E id \in CmdIds, x \in X, y \in Y :
       LET r == BuildPortOn(World, id, x, y) IN
       Apply("buildPort",
             IF r.outcome = "badsite" THEN NoArgs
             ELSE Args(id, x, y, x, y, <<0, 1>>),
             BuildFacts(id, x, y, "port", 5), r)

BuildCityIn(go, X, Y) ==
  /\ go
  /\ \E id \in CmdIds, x \in X, y \in Y :
       LET r == BuildCityOn(World, id, x, y) IN
       Apply("buildCity",
             IF r.outcome = "badsite" THEN NoArgs
             ELSE Args(id, x, y, x, y, <<0, 1>>),
             BuildFacts(id, x, y, "city", 10), r)

Spawn == SpawnIn(Running, XS, YS)
Attack == AttackIn(Running, XS, YS, Fractions)
Expand == ExpandIn(Running, XS, YS, Fractions)
BuildPort == BuildPortIn(Running, XS, YS)
BuildCity == BuildCityIn(Running, XS, YS)

\* the timer: game.update(), then broadcastState()
Tick ==
  /\ Running
  /\ \E r \in Update(World, bots) : Apply("tick", NoArgs, NoFacts, r)

InitFor(mask, capacity) ==
  /\ landMask = mask
  /\ maxPlayers = capacity
  /\ cells = [i \in Indices |-> FreedCell]
  /\ players = <<>>
  /\ bots = <<>>
  /\ crashed = FALSE
  /\ steps = 0
  /\ last = [op |-> "new", args |-> NoArgs, ret |-> "none", sent |-> 0,
             outcome |-> "new", subs |-> <<>>, changed |-> FALSE,
             facts |-> NoFacts,
             grown |-> NoGrowth]
  /\ prev = [cells |-> cells, players |-> players]
  /\ loop = LoopIdle(NoSnapshot, "never", 0, 0)

InitWith(mask) == InitFor(mask, MAX_PLAYERS_PER_GAME)

Init == InitWith(MaskStrait)

Next ==
  \/ Join
  \/ Leave
  \/ Spawn
  \/ Attack
  \/ Expand
  \/ BuildPort
  \/ BuildCity
  \/ Tick

Spec == Init /\ [][Next]_vars

\* The same server with clients that send any coordinates and any fractions.
RunningWide == ~crashed /\ ~Idle /\ steps < MaxWideSteps

JoinWide == steps < MaxWideSteps /\ Join
SpawnWide == SpawnIn(RunningWide, WideXS, WideYS)
AttackWide == AttackIn(RunningWide, WideXS, WideYS, WideFractions)
ExpandWide == ExpandIn(RunningWide, WideXS, WideYS, WideFractions)
BuildPortWide == BuildPortIn(RunningWide, WideXS, WideYS)
BuildCityWide == BuildCityIn(RunningWide, WideXS, WideYS)
TickWide == steps < MaxWideSteps /\ Tick

NextWide ==
  \/ JoinWide
  \/ SpawnWide
  \/ AttackWide
  \/ ExpandWide
  \/ BuildPortWide
  \/ BuildCityWide
  \/ TickWide

SpecWide == Init /\ [][NextWide]_vars

\* The server with its timer running for ever: setInterval fires the tick
\* every TICK_INTERVAL_MS for as long as the process lives, so ticks are not
\* counted, take place whatever the last call did, and are fair. The other
\* calls are made while fewer than MaxTimerCalls of them have been made.
RunningTimer == ~crashed /\ ~Idle /\ steps < MaxTimerCalls

JoinTimer == steps < MaxTimerCalls /\ Join
LeaveTimer == steps < MaxTimerCalls /\ Leave
SpawnTimer == SpawnIn(RunningTimer, XS, YS)
AttackTimer == AttackIn(RunningTimer, XS, YS, Fractions)
ExpandTimer == ExpandIn(RunningTimer, XS, YS, Fractions)
BuildPortTimer == BuildPortIn(RunningTimer, XS, YS)
BuildCityTimer == BuildCityIn(RunningTimer, XS, YS)

TickTimer ==
  /\ ~crashed
  /\ last.op = "tick" \/ ~Idle
  /\ \E r \in Update(World, bots) :
       /\ cells' = r.cells
       /\ players' = r.players
       /\ crashed' = (r.ret = "throw")
       /\ last' = Record("tick", NoArgs, NoFacts, r)
       /\ prev' = World
       /\ UNCHANGED <<landMask, maxPlayers, bots, steps, loop>>

NextTimer ==
  \/ JoinTimer
  \/ LeaveTimer
  \/ SpawnTimer
  \/ AttackTimer
  \/ ExpandTimer
  \/ BuildPortTimer
  \/ BuildCityTimer
  \/ TickTimer

SpecTimer == Init /\ [][NextTimer]_vars /\ WF_vars(TickTimer)

\* The server on the bay: the same calls on the second land mask.
InitBay == InitWith(MaskBay)

RunningBay == ~crashed /\ ~Idle /\ steps < MaxBaySteps

JoinBay == steps < MaxBaySteps /\ Join
LeaveBay == steps < MaxBaySteps /\ Leave
SpawnBay == SpawnIn(RunningBay, XS, YS)
AttackBay == AttackIn(RunningBay, XS, YS, Fractions)
ExpandBay == ExpandIn(RunningBay, XS, YS, Fractions)
BuildPortBay == BuildPortIn(RunningBay, XS, YS)
BuildCityBay == BuildCityIn(RunningBay, XS, YS)
TickBay == steps < MaxBaySteps /\ Tick

NextBay ==
  \/ JoinBay
  \/ LeaveBay
  \/ SpawnBay
  \/ AttackBay
  \/ ExpandBay
  \/ BuildPortBay
  \/ BuildCityBay
  \/ TickBay

SpecBay == InitBay /\ [][NextBay]_vars

\* The same calls on the islet mask, the timer never stopping.
InitIslet == InitWith(MaskIslet)

RunningIslet == ~crashed /\ ~Idle /\ steps < MaxIsletCalls

JoinIslet == steps < MaxIsletCalls /\ Join
LeaveIslet == steps < MaxIsletCalls /\ Leave
SpawnIslet == SpawnIn(RunningIslet, XS, YS)
AttackIslet == AttackIn(RunningIslet, XS, YS, Fractions)
ExpandIslet == ExpandIn(RunningIslet, XS, YS, Fractions)
BuildPortIslet == BuildPortIn(RunningIslet, XS, YS)
BuildCityIslet == BuildCityIn(RunningIslet, XS, YS)
TickIslet == TickTimer /\ landMask = MaskIslet

NextIslet ==
  \/ JoinIslet
  \/ LeaveIslet
  \/ SpawnIslet
  \/ AttackIslet
  \/ ExpandIslet
  \/ BuildPortIslet
  \/ BuildCityIslet
  \/ TickIslet

SpecIslet == InitIslet /\ [][NextIslet]_vars

\* The same calls on a server whose capacity makes two bots.
InitTwoBots == InitFor(MaskStrait, MAX_PLAYERS_TWO_BOTS)

RunningTwoBots == ~crashed /\ ~Idle /\ steps < MaxTwoBotsSteps

JoinTwoBots == steps < MaxTwoBotsSteps /\ Join
LeaveTwoBots == steps < MaxTwoBotsSteps /\ Leave
SpawnTwoBots == SpawnIn(RunningTwoBots, XS, YS)
AttackTwoBots == AttackIn(RunningTwoBots, XS, YS, Fractions)
ExpandTwoBots == ExpandIn(RunningTwoBots, XS, YS, Fractions)
BuildPortTwoBots == BuildPortIn(RunningTwoBots, XS, YS)
BuildCityTwoBots == BuildCityIn(RunningTwoBots, XS, YS)
TickTwoBots == steps < MaxTwoBotsSteps /\ Tick

NextTwoBots ==
  \/ JoinTwoBots
  \/ LeaveTwoBots
  \/ SpawnTwoBots
  \/ AttackTwoBots
  \/ ExpandTwoBots
  \/ BuildPortTwoBots
  \/ BuildCityTwoBots
  \/ TickTwoBots

SpecTwoBots == InitTwoBots /\ [][NextTwoBots]_vars

\* ------------------------------------------------------------------------
\* The event loop: the tick and expand step by step
\* ------------------------------------------------------------------------
\* The timer callback and the request callbacks are synchronous functions:
\* Node.js starts a callback only when no other callback is running.
\* mutant of LoopFree: a callback starts while another is under way
LoopFreeAlways == TRUE

LoopFree == loop.pc = "idle"

RunningLoop == ~crashed /\ ~Idle /\ steps < MaxLoopSteps /\ LoopFree

\* the world as the callback under way sees it
LoopWorld == [loop.acc EXCEPT !.cells = cells, !.players = players]

\* what a callback that ran step by step leaves in last
LoopRecord(op, args, facts) ==
  [Record(op, args, facts, LoopWorld) EXCEPT !.changed = (World # prev)]

LoopJoin == steps < MaxLoopSteps /\ LoopFree /\ Join
LoopLeave == steps < MaxLoopSteps /\ LoopFree /\ Leave
LoopSpawn == SpawnIn(RunningLoop, XS, YS)
LoopAttack == AttackIn(RunningLoop, XS, YS, Fractions)
LoopBuildPort == BuildPortIn(RunningLoop, XS, YS)
LoopBuildCity == BuildCityIn(RunningLoop, XS, YS)

\* GET /events: the new client is sent serializeState() at once
LoopEvents ==
  /\ RunningLoop
  /\ loop' = [loop EXCEPT !.snapshot = SerializeState(World), !.sentAt = loop.pc]
  /\ last' = Record("events", NoArgs, NoFacts,
                    Result(cells, players, "none", 0, "sent"))
  /\ prev' = World
  /\ steps' = steps + 1
  /\ UNCHANGED <<landMask, maxPlayers, cells, players, bots, crashed>>

\* the timer fires: update starts with the growth loop
TickGrow ==
  /\ RunningLoop
  /\ players' = GrowAll(cells, players)
  /\ loop' = [loop EXCEPT !.pc = "bots", !.k = 1,
                          !.acc = CHOOSE r \in Update(World, <<>>) : TRUE,
                          !.ticks = @ + 1]
  /\ prev' = World
  /\ steps' = steps + 1
  /\ UNCHANGED <<landMask, maxPlayers, cells, bots, crashed, last>>

\* the next bot of the list acts
TickBot ==
  /\ loop.pc = "bots"
  /\ loop.k <= Len(bots)
  /\ \E r \in BotAct(LoopWorld, bots[loop.k]) :
       /\ cells' = r.cells
       /\ players' = r.players
       /\ loop' = [loop EXCEPT !.k = @ + 1, !.acc = r]
  /\ UNCHANGED <<landMask, maxPlayers, bots, crashed, steps, last, prev>>

\* update has returned: broadcastState, and the callback ends
TickBroadcast ==
  /\ loop.pc = "bots"
  /\ loop.k > Len(bots)
  /\ last' = LoopRecord("tick", NoArgs, NoFacts)
  /\ loop' = LoopIdle(SerializeState(World), "tickend", loop.ticks,
                      loop.broadcasts + 1)
  /\ UNCHANGED <<landMask, maxPlayers, cells, players, bots, crashed, steps, prev>>

\* POST /api/expand: the checks and the target list; the loop over the
\* targets follows if there is a target
ExpandStart ==
  /\ RunningLoop
  /\ \E id \in CmdIds, x \in XS, y \in YS :
       IF ExpandOn(World, id, x, y, <<1, 1>>).outcome # "expanded"
       THEN Apply("expand", NoArgs, ExpandFacts(id, x, y),
                  ExpandOn(World, id, x, y, <<1, 1>>))
       ELSE \E percent \in Fractions :
              /\ loop' = [loop EXCEPT
                            !.pc = "expand", !.k = 1,
                            !.acc = Result(cells, players, "false", 0, "expanded"),
                            !.call = Args(id, x, y, x, y, percent),
                            !.targets = ExpandTargets(World, id, x, y),
                            !.facts = ExpandFacts(id, x, y)]
              /\ prev' = World
              /\ steps' = steps + 1
              /\ UNCHANGED <<landMask, maxPlayers, cells, players, bots,
                             crashed, last>>

\* the sub-attack on the next target
ExpandSub ==
  /\ loop.pc = "expand"
  /\ loop.k <= Len(loop.targets)
  /\ loop.acc.ret # "throw"
  /\ LET r == ExpandLoop(LoopWorld, loop.call.id, loop.call.srcX, loop.call.srcY,
                         SubSeq(loop.targets, 1, loop.k),
                         PerTarget(loop.call.percent, Len(loop.targets)), loop.k)
     IN /\ cells' = r.cells
        /\ players' = r.players
        /\ loop' = [loop EXCEPT !.k = @ + 1, !.acc = r]
  /\ UNCHANGED <<landMask, maxPlayers, bots, crashed, steps, last, prev>>

\* the loop is over (or a sub-attack threw): the response is written
ExpandEnd ==
  /\ loop.pc = "expand"
  /\ loop.k > Len(loop.targets) \/ loop.acc.ret = "throw"
  /\ last' = LoopRecord("expand", loop.call, loop.facts)
  /\ crashed' = (loop.acc.ret = "throw")
  /\ loop' = LoopIdle(loop.snapshot, loop.sentAt, loop.ticks, loop.broadcasts)
  /\ UNCHANGED <<landMask, maxPlayers, cells, players, bots, steps, prev>>

NextLoop ==
  \/ LoopJoin
  \/ LoopLeave
  \/ LoopSpawn
  \/ LoopAttack
  \/ LoopBuildPort
  \/ LoopBuildCity
  \/ LoopEvents
  \/ TickGrow
  \/ TickBot
  \/ TickBroadcast
  \/ ExpandStart
  \/ ExpandSub
  \/ ExpandEnd

SpecLoop == Init /\ [][NextLoop]_vars

\* ------------------------------------------------------------------------
\* Properties
\* ------------------------------------------------------------------------
\* the last call, seen from the state it left
LastId == last.args.id
LastSrc == Idx(last.args.srcX, last.args.srcY)
LastDst == Idx(last.args.dstX, last.args.dstY)
\* an attack call that got past the checks on its source, geometry and size
LastAttack == last.op = "attack" /\ LastId # NULL
\* floor(pool * fraction) of the attacker's pool when the call was made
LastSent ==
  (prev.players[LastId].troops * last.args.percent[1]) \div last.args.percent[2]
\* the owner of the destination when the call was made
LastDefender == prev.cells[LastDst].owner
LastBattle ==
  /\ LastAttack
  /\ LastDefender \notin {NULL, LastId}
  /\ LastDefender \in DOMAIN prev.players
Commands == {"spawn", "attack", "expand", "buildPort", "buildCity"}

\* C1: a cell with a port or a city is a land cell with an owner; an unowned
\* cell has neither.
FortifiedCellsAreOwnedLand ==
  \A i \in Indices :
    (cells[i].port \/ cells[i].city) => (landMask[i] /\ cells[i].owner # NULL)

\* C1 witness: a player left and a cell that had a port or a city was freed.
FortifiedCellFreed ==
  /\ last.op = "leave"
  /\ \E i \in Indices :
       /\ prev.cells[i].port \/ prev.cells[i].city
       /\ cells[i] = FreedCell

\* C2: the territory set of every player in the roster is exactly the set of
\* cells whose owner is that player.
TerritoryMatchesOwnership ==
  \A id \in DOMAIN players :
    players[id].cells = {i \in Indices : cells[i].owner = id}

\* C2 witness: a cell has just passed from one player's territory to
\* another's.
CellChangedHands ==
  /\ LastBattle
  /\ cells[LastDst].owner = LastId
  /\ LastDst \in prev.players[LastDefender].cells
  /\ LastDst \in players[LastId].cells

\* C3: no troop pool is negative.
PoolsNonNegative == \A id \in DOMAIN players : players[id].troops >= 0

\* C3 witness: a pool was spent down to exactly zero, by a build or by a
\* battle that empties the attacker's and the defender's pool.
PoolSpentToZero ==
  \/ /\ last.op \in {"buildCity", "buildPort"}
     /\ last.ret = "true"
     /\ players[LastId].troops = 0
  \/ /\ LastBattle
     /\ LastDefender \in DOMAIN players
     /\ prev.players[LastDefender].troops > 0
     /\ players[LastDefender].troops = 0
     /\ players[LastId].troops = 0

\* C4: a command that returns false leaves the world as it was.
FailedCommandChangesNothing ==
  (last.op \in Commands /\ last.ret = "false")
    => (cells = prev.cells /\ players = prev.players)

\* C5: an attack on a cell the attacker already owns returns false and does
\* not debit the pool.
OwnCellAttackNotDebited ==
  (LastAttack /\ Defined(LastDst) /\ LastDefender = LastId)
    => (last.ret = "false"
        /\ players[LastId].troops = prev.players[LastId].troops)

\* C6: an attack that captures or battles debits exactly floor(pool *
\* fraction) from the attacker, whatever the outcome.
AttackDebitsExactlySent ==
  (LastAttack /\ last.ret = "true")
    => players[LastId].troops = prev.players[LastId].troops - LastSent

\* C6 witness: the attacker won against a smaller pool and kept no surplus.
WonWithSurplus ==
  /\ LastBattle
  /\ cells[LastDst].owner = LastId
  /\ LastSent > prev.players[LastDefender].troops + 1
  /\ players[LastId].troops = prev.players[LastId].troops - LastSent

\* C7: when sent <= defenderPool the destination keeps its owner, both
\* territories stay as they were and the defender loses exactly sent.
RepelledKeepsOwnership ==
  (LastBattle /\ LastSent <= prev.players[LastDefender].troops)
    => /\ cells[LastDst] = prev.cells[LastDst]
       /\ LastDefender \in DOMAIN players
       /\ players[LastDefender].cells = prev.players[LastDefender].cells
       /\ players[LastId].cells = prev.players[LastId].cells
       /\ players[LastDefender].troops
            = prev.players[LastDefender].troops - LastSent

\* C7 witness: the tie, sent = defenderPool.
TieRepelled ==
  /\ LastBattle
  /\ LastSent = prev.players[LastDefender].troops
  /\ cells[LastDst].owner = LastDefender

\* C8: when sent > defenderPool the defender's pool becomes 0, the cell moves
\* from the defender's territory to the attacker's with port and city reset,
\* and no other cell changes owner.
WonBattleTransfersCell ==
  (LastBattle /\ LastSent > prev.players[LastDefender].troops)
    => /\ players[LastDefender].troops = 0
       /\ LastDst \notin players[LastDefender].cells
       /\ LastDst \in players[LastId].cells
       /\ cells[LastDst] = [owner |-> LastId, port |-> FALSE, city |-> FALSE]
       /\ \A j \in Indices \ {LastDst} : cells[j].owner = prev.cells[j].owner

\* C8 witness: a cell with a port or a city was taken from its owner.
FortifiedCellTaken ==
  /\ LastBattle
  /\ LastSent > prev.players[LastDefender].troops
  /\ prev.cells[LastDst].port \/ prev.cells[LastDst].city
  /\ cells[LastDst].owner = LastId

\* the reachability rule of attack as the design states it: a Moore
\* neighbour, or two steps along a row, column or diagonal from a port, over
\* water, onto land
DesignReachable ==
  LET dx == last.args.dstX - last.args.srcX
      dy == last.args.dstY - last.args.srcY
      midIdx == Idx(last.args.srcX + dx \div 2, last.args.srcY + dy \div 2)
  IN \/ Max(Abs(dx), Abs(dy)) = 1
     \/ /\ dx \in {0 - 2, 0, 2}
        /\ dy \in {0 - 2, 0, 2}
        /\ Max(Abs(dx), Abs(dy)) = 2
        /\ prev.cells[LastSrc].port
        /\ ~landMask[midIdx]
        /\ landMask[LastDst]

\* C9: an attack with a valid source, legal geometry and sent >= 1 on an
\* unowned destination captures it and returns true.
UnownedDestinationCaptured ==
  (/\ LastAttack
   /\ InGrid(last.args.srcX, last.args.srcY)
   /\ InGrid(last.args.dstX, last.args.dstY)
   /\ prev.cells[LastSrc].owner = LastId
   /\ DesignReachable
   /\ LastSent >= 1
   /\ LastDefender = NULL)
    => /\ last.ret = "true"
       /\ cells[LastDst] = [owner |-> LastId, port |-> FALSE, city |-> FALSE]
       /\ players[LastId].cells = prev.players[LastId].cells \cup {LastDst}

\* C9 witness: the scenario of the design: a pool of 10, half of it sent to
\* an unowned neighbour, pool 5 and a territory of two cells afterwards.
HalfPoolCapturesNeighbour ==
  /\ LastAttack
  /\ LastDefender = NULL
  /\ prev.players[LastId].troops = 10
  /\ last.args.percent = <<1, 2>>
  /\ players[LastId].troops = 5
  /\ players[LastId].cells = {LastSrc, LastDst}
  /\ LastSrc # LastDst

\* C10: attack changes the world only if the destination is reachable by the
\* design's rule; every other geometry fails with no change.
AttackOnlyReachable ==
  (last.op = "attack" /\ last.changed) => DesignReachable

\* C11: a command with a coordinate outside the grid returns false and
\* changes nothing (a thrown TypeError is not a boolean failure either).
OutOfGridCommandRejected ==
  (last.op \in Commands /\ ~last.facts.inGrid)
    => (last.ret = "false" /\ ~last.changed)

\* C12: spawn by a player of the roster on a cell of the grid returns true
\* exactly when the cell is land and unowned; then that cell alone becomes
\* the player's, without port or city, it joins the player's territory and
\* the pool grows by 10, nothing else changing; otherwise spawn returns false
\* and changes nothing.
SpawnContract ==
  (last.op = "spawn" /\ last.facts.inGrid /\ last.facts.member)
    => /\ last.ret \in {"true", "false"}
       /\ (last.ret = "true") <=> (last.facts.land /\ last.facts.free)
       /\ last.ret = "false" => ~last.changed
       /\ last.ret = "true" =>
            /\ cells = [prev.cells EXCEPT
                          ![LastSrc] = [owner |-> LastId, port |-> FALSE,
                                        city |-> FALSE]]
            /\ players = [prev.players EXCEPT
                            ![LastId] = [cells |-> @.cells \cup {LastSrc},
                                         troops |-> @.troops + 10]]

\* C12 witness: a player that holds a cell and a pool of 10 spawns again:
\* two cells and a pool of 20.
SecondSpawnAddsTen ==
  /\ last.op = "spawn"
  /\ last.ret = "true"
  /\ prev.players[LastId].troops = 10
  /\ Cardinality(prev.players[LastId].cells) = 1
  /\ players[LastId].troops = 20
  /\ Cardinality(players[LastId].cells) = 2

\* C13: an attack or expand call whose fraction is not in (0,1] returns
\* false and changes nothing, and no attack sends more troops than the pool
\* of the attacker holds.
FractionOutsideRangeRejected ==
  /\ (/\ last.op \in {"attack", "expand"}
      /\ LastId # NULL
      /\ (last.args.percent[1] <= 0 \/ last.args.percent[1] > last.args.percent[2]))
       => (last.ret = "false" /\ ~last.changed)
  /\ LastAttack => last.sent <= prev.players[LastId].troops

\* C14: in an expand call with at least two targets, all sub-attacks that
\* send troops send the same number of troops.
ExpandSendsEqualShares ==
  (last.op = "expand" /\ Len(last.subs) >= 2)
    => \A a, b \in DOMAIN last.subs :
         (last.subs[a].sent >= 1 /\ last.subs[b].sent >= 1)
           => last.subs[a].sent = last.subs[b].sent

BuildPortContract ==
  (last.op = "buildPort" /\ last.facts.inGrid)
    => /\ last.ret \in {"true", "false"}
       /\ (last.ret = "true")
            <=> (/\ last.facts.owned
                 /\ last.facts.land
                 /\ ~last.facts.built
                 /\ last.facts.water
                 /\ last.facts.rich)
       /\ last.ret = "false" => ~last.changed
       /\ last.ret = "true" =>
            /\ cells = [prev.cells EXCEPT ![LastSrc].port = TRUE]
            /\ players = [prev.players EXCEPT ![LastId].troops = @ - 5]
       /\ (last.facts.land /\ ~last.facts.water) => last.ret = "false"

\* C16 witness: the owner of a land cell that has no port and no water
\* neighbour holds 5 troops or more, and buildPort fails.
PortRefusedInland ==
  /\ last.op = "buildPort"
  /\ last.facts.owned
  /\ last.facts.land
  /\ ~last.facts.built
  /\ ~last.facts.water
  /\ last.facts.rich
  /\ last.ret = "false"

\* C17: buildCity on a cell of the grid returns true exactly when the caller
\* owns the cell, the cell is land without a city and the pool holds 10; then
\* the pool loses 10 and the city flag of that cell is set, nothing else
\* changing; otherwise it returns false and changes nothing.
BuildCityContract ==
  (last.op = "buildCity" /\ last.facts.inGrid)
    => /\ last.ret \in {"true", "false"}
       /\ (last.ret = "true")
            <=> (/\ last.facts.owned
                 /\ last.facts.land
                 /\ ~last.facts.built
                 /\ last.facts.rich)
       /\ last.ret = "false" => ~last.changed
       /\ last.ret = "true" =>
            /\ cells = [prev.cells EXCEPT ![LastSrc].city = TRUE]
            /\ players = [prev.players EXCEPT ![LastId].troops = @ - 10]

\* C17 witness: a city is built from a pool of exactly 10, which it empties.
CityBuiltFromTen ==
  /\ last.op = "buildCity"
  /\ last.ret = "true"
  /\ prev.players[LastId].troops = 10
  /\ players[LastId].troops = 0
  /\ ~prev.cells[LastSrc].city
  /\ cells[LastSrc].city

\* the capacity of player p in the world a tick started from
CapacityBefore(p) ==
  5 + (Cardinality(prev.players[p].cells) \div 2)
    + 5 * Cardinality({i \in prev.players[p].cells : prev.cells[i].city})

\* C18: the growth step of a tick sets the pool of each player to
\* min(pool + max(1, floor(pool / 3)), 5 + floor(territory / 2) + 5 * cities)
\* and changes no cell and no territory.
GrowthStepFormula ==
  last.op = "tick"
    => /\ last.grown.cells = prev.cells
       /\ DOMAIN last.grown.players = DOMAIN prev.players
       /\ \A p \in DOMAIN prev.players :
            /\ last.grown.players[p].cells = prev.players[p].cells
            /\ last.grown.players[p].troops =
                 Min(prev.players[p].troops
                       + Max(1, prev.players[p].troops \div 3),
                     CapacityBefore(p))

\* C18 witness: a tick in which the cities of a player decide the pool: the
\* pool grows to a capacity it would not have without them.
GrowthCappedByCities ==
  /\ last.op = "tick"
  /\ \E p \in DOMAIN prev.players :
       /\ \E i \in prev.players[p].cells : prev.cells[i].city
       /\ last.grown.players[p].troops = CapacityBefore(p)
       /\ last.grown.players[p].troops > prev.players[p].troops
       /\ last.grown.players[p].troops
            > 5 + (Cardinality(prev.players[p].cells) \div 2)

\* C20: the growth step leaves the pool of a player with no territory and
\* an empty pool at 0.
GrowthSkipsEmptyPlayers ==
  last.op = "tick"
    => \A p \in DOMAIN prev.players :
         (prev.players[p].cells = {} /\ prev.players[p].troops = 0)
           => last.grown.players[p].troops = 0

\* every id a player of the roster can have
AllIds == HumanIds \cup {BotNames[k] : k \in DOMAIN BotNames}

\* the capacity of player p in the current world
Capacity(p) ==
  5 + (Cardinality(players[p].cells) \div 2)
    + 5 * Cardinality({i \in players[p].cells : cells[i].city})

AtCapacity(p) == p \in DOMAIN players /\ players[p].troops = Capacity(p)

\* the last call was a tick that player p went through with the same
\* territory and the same number of cities, and in which p, if it is a bot,
\* made no attack
TickKeptHoldings(p) ==
  /\ last.op = "tick"
  /\ p \in DOMAIN prev.players
  /\ p \in DOMAIN players
  /\ players[p].cells = prev.players[p].cells
  /\ Capacity(p) = CapacityBefore(p)
  /\ \A k \in DOMAIN last.subs :
       last.subs[k].bot = p => last.subs[k].kind \notin {"attack", "spawn"}

\* and no bot attacked a cell of p in that tick
TickInPeace(p) ==
  /\ TickKeptHoldings(p)
  /\ \A k \in DOMAIN last.subs :
       last.subs[k].kind = "attack" => last.subs[k].dst \notin players[p].cells

\* C19: while every call is a tick that leaves a player its territory and
\* its cities and in which the player makes no move, the pool does not exceed
\* the capacity after the tick, stays at the capacity once it has reached it,
\* and (for the first client that joined, the ids being interchangeable) is
\* at the capacity for good after finitely many ticks.
GrowthConverges ==
  /\ [](\A p \in AllIds :
          TickKeptHoldings(p)
            => /\ players[p].troops <= Capacity(p)
               /\ prev.players[p].troops = CapacityBefore(p)
                    => players[p].troops = Capacity(p))
  /\ []<>(~TickKeptHoldings(HumanSeq[1])) \/ <>[]AtCapacity(HumanSeq[1])

\* C19 as amended: the same, for ticks in which no cell of the player is
\* attacked either.
GrowthConvergesInPeace ==
  /\ [](\A p \in AllIds :
          TickInPeace(p)
            => /\ players[p].troops <= Capacity(p)
               /\ prev.players[p].troops = CapacityBefore(p)
                    => players[p].troops = Capacity(p))
  /\ []<>(~TickInPeace(HumanSeq[1])) \/ <>[]AtCapacity(HumanSeq[1])

\* C19 witness: a peaceful tick takes a pool that was below the capacity up
\* to the capacity.
PoolReachesCapacity ==
  \E p \in DOMAIN players :
    /\ TickInPeace(p)
    /\ players[p].cells # {}
    /\ prev.players[p].troops < CapacityBefore(p)
    /\ players[p].troops = Capacity(p)

\* C21: a join succeeds exactly when the roster (humans and bots) held fewer
\* than MAX_PLAYERS_PER_GAME players when it was made; it then adds a player
\* with no territory and a pool of 0, and a refused join changes nothing; the
\* roster never holds more than MAX_PLAYERS_PER_GAME players.
JoinContract ==
  /\ Cardinality(DOMAIN players) <= MAX_PLAYERS_PER_GAME
  /\ last.op = "join"
       => /\ last.ret \in {"true", "false"}
          /\ (last.ret = "true")
               <=> (Cardinality(DOMAIN prev.players) < MAX_PLAYERS_PER_GAME)
          /\ last.ret = "false" => (players = prev.players /\ cells = prev.cells)
          /\ last.ret = "true"
               => /\ LastId \notin DOMAIN prev.players
                  /\ LastId \in DOMAIN players
                  /\ players[LastId].cells = {}
                  /\ players[LastId].troops = 0
                  /\ cells = prev.cells
                  /\ \A p \in DOMAIN prev.players :
                       p \in DOMAIN players /\ players[p] = prev.players[p]

\* C21 witness: a client is refused at a roster that a join, a backfill, a
\* leave and another join have filled to the capacity.
JoinRefusedAtCapacity ==
  /\ last.op = "join"
  /\ last.ret = "false"
  /\ Cardinality(DOMAIN players) = MAX_PLAYERS_PER_GAME
  /\ Len(bots) > 0

\* C22: after a successful join the roster holds MAX_PLAYERS_PER_GAME
\* players, bots included.
JoinFillsRoster ==
  (last.op = "join" /\ last.ret = "true")
    => Cardinality(DOMAIN players) = MAX_PLAYERS_PER_GAME

\* C23: a leave of a player of the roster removes the player and frees every
\* cell the player owned, clearing its port and its city; every other player
\* and every other cell stay as they were; a leave of an id that is not in
\* the roster changes nothing.
LeaveContract ==
  last.op = "leave"
    => IF LastId = NULL
       THEN players = prev.players /\ cells = prev.cells
       ELSE /\ LastId \in DOMAIN prev.players
            /\ DOMAIN players = (DOMAIN prev.players) \ {LastId}
            /\ \A p \in DOMAIN players : players[p] = prev.players[p]
            /\ \A i \in Indices :
                 IF prev.cells[i].owner = LastId
                 THEN /\ cells[i].owner = NULL
                      /\ ~cells[i].port
                      /\ ~cells[i].city
                 ELSE cells[i] = prev.cells[i]

\* C23 witness: a player holding a cell with a port leaves while another
\* player holds territory.
LeaveFreesFortifiedCell ==
  /\ last.op = "leave"
  /\ LastId # NULL
  /\ \E i \in Indices : prev.cells[i].owner = LastId /\ prev.cells[i].port
  /\ \E p \in DOMAIN players : players[p].cells # {}

\* the cells expand takes as targets from cell i, for the owner of i
ExpandTargetCells(i) ==
  LET targets == ExpandTargets(World, cells[i].owner, i % GRID_W, i \div GRID_W)
  IN {Idx(targets[k][1], targets[k][2]) : k \in DOMAIN targets}

\* the cells the owner of cell i does not own and that the movement check of
\* attack accepts as a destination from i
AttackableCells(i) ==
  {j \in Indices :
     /\ cells[j].owner # cells[i].owner
     /\ MoveOk(World, i % GRID_W, i \div GRID_W, j % GRID_W, j \div GRID_W)}

\* C26: from every cell a player of the roster owns, the targets of expand
\* are exactly the cells the player does not own that the movement check of
\* attack accepts from that cell.
ExpandTargetsAreAttackable ==
  \A i \in Indices :
    cells[i].owner \in DOMAIN players
      => ExpandTargetCells(i) = AttackableCells(i)

\* C28: when a bot with no territory claims a cell in a tick, the cell was
\* unowned land, is then owned by the bot without port or city and is the
\* territory of the bot, and the pool of the bot is 10 more than it was just
\* before the claim (after the growth step of that tick).
BotClaimIsSpawn ==
  last.op = "tick"
    => \A k \in DOMAIN last.subs :
         last.subs[k].kind = "spawn"
           => LET b == last.subs[k].bot
                  i == last.subs[k].dst
              IN /\ last.grown.players[b].cells = {}
                 /\ last.subs[k].pool = last.grown.players[b].troops
                 /\ landMask[i]
                 /\ prev.cells[i].owner = NULL
                 /\ cells[i] = [owner |-> b, port |-> FALSE, city |-> FALSE]
                 /\ players[b].cells = {i}
                 /\ players[b].troops = last.subs[k].pool + 10

\* the cells a bot may attack from cell i: not its own, and a Moore neighbour
\* or, from a port, two steps along one of the eight lines over water onto
\* land (read from the world w the bot acts in)
BotCandidates(w, b, i) ==
  {j \in Indices :
     /\ w.cells[j].owner # b
     /\ \/ CellDistance(i, j) = 1
        \/ /\ CellDistance(i, j) = 2
           /\ Abs((i % GRID_W) - (j % GRID_W)) \in {0, 2}
           /\ Abs((i \div GRID_W) - (j \div GRID_W)) \in {0, 2}
           /\ w.cells[i].port
           /\ ~landMask[(i + j) \div 2]
           /\ landMask[j]}

BotWithoutLandStaysOut ==
  (last.op = "tick" /\ \A i \in Indices : landMask[i] => prev.cells[i].owner # NULL)
    => /\ (\A k \in 1 .. Len(bots) : prev.players[bots[k]].cells = {})
            => \A i \in Indices : cells[i].owner = prev.cells[i].owner
       /\ \A k \in 1 .. Len(bots) :
            prev.players[bots[k]].cells = {}
              => /\ players[bots[k]].cells = {}
                 /\ \A i \in Indices : cells[i].owner # bots[k]
                 /\ players[bots[k]].troops = last.grown.players[bots[k]].troops
                 /\ \E n \in DOMAIN last.subs :
                      /\ last.subs[n].bot = bots[k]
                      /\ last.subs[n].kind = "nospawn"
                      /\ last.subs[n].samples <= 50
                      /\ \A m \in DOMAIN last.subs :
                           last.subs[m].bot = bots[k] => m = n

\* C29 witness: the second of two consecutive ticks in which the bot holds
\* no territory and the only land cell is owned.
BotIdleOnFullGrid ==
  /\ last.op = "tick"
  /\ \A i \in Indices : landMask[i] => prev.cells[i].owner # NULL
  /\ \E i \in Indices : landMask[i]
  /\ Len(bots) > 0
  /\ players[bots[1]].cells = {}
  /\ prev.players[bots[1]].troops > 1

\* C27: a tick logs one decision per bot, in the order of the bot list.  The
\* first bot acts on the world the growth step left: it sees its grown pool,
\* and claims exactly when it holds no territory.  The second bot acts on
\* the world the first bot left: its pool is the grown pool less what an
\* attack of the first bot took from it (all of it when the attack captured
\* its cell), it claims exactly when it holds no territory after the first
\* bot acted, it never claims the cell the first bot took in this tick, and
\* it attacks from a cell it still owns and finds the cell the first bot
\* took defended.
BotsActInTurn ==
  last.op = "tick"
    => /\ Len(last.subs) = Len(bots)
       /\ \A k \in DOMAIN last.subs : last.subs[k].bot = bots[k]
       /\ Len(bots) >= 1
            => /\ last.subs[1].pool = last.grown.players[bots[1]].troops
               /\ (last.subs[1].kind \in {"spawn", "nospawn"})
                    <=> (last.grown.players[bots[1]].cells = {})
       /\ Len(bots) = 2
            => LET first == last.subs[1]
                   second == last.subs[2]
                   grown == last.grown.players[bots[2]]
                   hit == /\ first.kind = "attack"
                          /\ last.grown.cells[first.dst].owner = bots[2]
                   lost == IF hit /\ first.outcome = "captured_enemy"
                           THEN {first.dst} ELSE {}
                   taken == IF \/ first.kind = "spawn"
                               \/ first.outcome \in {"captured_free", "captured_enemy"}
                            THEN {first.dst} ELSE {}
               IN /\ second.pool =
                       IF hit /\ first.outcome = "captured_enemy" THEN 0
                       ELSE IF hit /\ first.outcome = "repelled"
                       THEN grown.troops - first.sent
                       ELSE grown.troops
                  /\ (second.kind \in {"spawn", "nospawn"})
                       <=> (grown.cells \ lost = {})
                  /\ second.kind = "spawn"
                       => /\ second.dst \notin taken
                          /\ last.grown.cells[second.dst].owner = NULL
                  /\ second.kind = "attack"
                       => /\ second.src \in grown.cells \ lost
                          /\ second.dst \in taken
                               => second.outcome \in {"captured_enemy", "repelled"}

\* C27 witness: in one tick the first bot attacks a cell of the second bot,
\* and the second bot then attacks with half of what the first bot left it.
SecondBotSeesFirstAttack ==
  /\ last.op = "tick"
  /\ Len(bots) = 2
  /\ Len(last.subs) = 2
  /\ last.subs[1].kind = "attack"
  /\ last.grown.cells[last.subs[1].dst].owner = bots[2]
  /\ last.subs[1].outcome = "repelled"
  /\ last.subs[2].kind = "attack"
  /\ last.subs[2].pool < last.grown.players[bots[2]].troops
  /\ last.subs[2].sent = last.subs[2].pool \div 2

\* a snapshot has just been written: to a client that subscribed, or to all
\* clients at the end of a tick
JustSent ==
  loop.pc = "idle" /\ last.op \in {"events", "tick"} /\ loop.sentAt # "never"

\* C24: the snapshot just written has the grid size, one entry per cell in
\* index order with the land, owner, port and city the cell has, and one
\* entry per player of the roster, no other, with the id, the name, the color
\* and the pool of the player; writing one to a new client leaves every cell
\* and every player as it was.
SnapshotFaithful ==
  JustSent
    => /\ last.op = "events" => (cells = prev.cells /\ players = prev.players)
       /\ loop.snapshot.gridW = GRID_W
       /\ loop.snapshot.gridH = GRID_H
       /\ Len(loop.snapshot.cells) = GRID_W * GRID_H
       /\ \A x \in XS, y \in YS :
            LET entry == loop.snapshot.cells[y * GRID_W + x + 1] IN
            /\ entry.land = landMask[Idx(x, y)]
            /\ entry.owner = cells[Idx(x, y)].owner
            /\ entry.port = cells[Idx(x, y)].port
            /\ entry.city = cells[Idx(x, y)].city
       /\ DOMAIN loop.snapshot.players = DOMAIN players
       /\ \A p \in DOMAIN players :
            /\ loop.snapshot.players[p].id = p
            /\ loop.snapshot.players[p].name
                 = (IF p \in HumanIds THEN "Anonyme" ELSE "Bot")
            /\ loop.snapshot.players[p].color = PlayerColor(p)
            /\ loop.snapshot.players[p].troops = players[p].troops

\* C24 witness: a client subscribes while one player holds a cell with a port
\* and another player of the roster holds no cell.
SnapshotOfBuiltWorld ==
  /\ last.op = "events"
  /\ \E i \in Indices : cells[i].port /\ loop.snapshot.cells[i + 1].port
  /\ \E p \in DOMAIN players :
       players[p].cells = {} /\ p \in DOMAIN loop.snapshot.players

\* the worlds the bots 1 .. n of the list can leave, acting in turn on the
\* world the growth step made of w
AfterBots(w, n) == BotsAct(Update(w, <<>>), SubSeq(bots, 1, n), 1)

\* C25: a callback runs from its start to its end with no other callback in
\* between.  While a tick is under way the world is the one the growth step
\* and the bots that acted so far made of the world the tick started from;
\* when it ends the world is an outcome of update on that world and the
\* snapshot broadcast is the snapshot of the world after the tick, one
\* broadcast for each tick.  While an expand is under way the world is the
\* one its sub-attacks so far made of the world it started from, and at its
\* end the one expand makes of it.  No snapshot is taken while a callback is
\* under way.
CallbacksRunToCompletion ==
  /\ loop.sentAt \in {"never", "idle", "tickend"}
  /\ loop.ticks = loop.broadcasts + (IF loop.pc = "bots" THEN 1 ELSE 0)
  /\ loop.pc = "bots"
       => \E r \in AfterBots(prev, loop.k - 1) :
            r.cells = cells /\ r.players = players /\ r.subs = loop.acc.subs
  /\ (loop.pc = "idle" /\ last.op = "tick")
       => /\ \E r \in Update(prev, bots) :
               r.cells = cells /\ r.players = players /\ r.subs = last.subs
          /\ loop.sentAt = "tickend" => loop.snapshot = SerializeState(World)
  /\ loop.pc = "expand"
       => LET r == ExpandLoop(
                     Result(prev.cells, prev.players, "false", 0, "expanded"),
                     loop.call.id, loop.call.srcX, loop.call.srcY,
                     SubSeq(loop.targets, 1, loop.k - 1),
                     PerTarget(loop.call.percent, Len(loop.targets)), 1)
          IN /\ r.cells = cells
             /\ r.players = players
             /\ loop.targets = ExpandTargets(prev, loop.call.id,
                                             loop.call.srcX, loop.call.srcY)
  /\ (loop.pc = "idle" /\ last.op = "expand" /\ LastId # NULL)
       => LET r == ExpandOn(prev, LastId, last.args.srcX, last.args.srcY,
                            last.args.percent)
          IN /\ r.cells = cells
             /\ r.players = players
             /\ r.ret = last.ret
             /\ r.subs = last.subs

\* C25 witness: a tick in which a bot attacked has ended, and its broadcast
\* shows the cell the bot took.
TickBroadcastAfterBotAttack ==
  /\ loop.pc = "idle"
  /\ last.op = "tick"
  /\ loop.broadcasts = loop.ticks
  /\ \E k \in DOMAIN last.subs :
       /\ last.subs[k].kind = "attack"
       /\ last.subs[k].outcome = "captured_free"
       /\ loop.snapshot.cells[last.subs[k].dst + 1].owner = last.subs[k].bot
       /\ prev.cells[last.subs[k].dst].owner = NULL

\* C31: every cell that has an owner is a land cell.
OwnedCellsAreLand ==
  \A i \in Indices : cells[i].owner # NULL => landMask[i]

\* C32: the owner of every cell that has one is a player of the roster.
OwnersAreInRoster ==
  \A i \in Indices : cells[i].owner # NULL => cells[i].owner \in DOMAIN players

\* what the sub-attacks 1 .. k of a log sent, summed
RECURSIVE SubsSent(_, _)
SubsSent(subs, k) ==
  IF k = 0 THEN 0 ELSE subs[k].sent + SubsSent(subs, k - 1)

\* C33: an expand call with a fraction in (0,1] that reaches its loop takes
\* from the pool of the player, over all its sub-attacks, no more than
\* floor(pool * fraction) of the pool the player had when the call was made;
\* what it takes is the sum of what the sub-attacks sent.
ExpandDebitBounded ==
  (last.op = "expand" /\ LastId # NULL)
    => /\ prev.players[LastId].troops - players[LastId].troops
            = SubsSent(last.subs, Len(last.subs))
       /\ prev.players[LastId].troops - players[LastId].troops
            <= (prev.players[LastId].troops * last.args.percent[1])
                 \div last.args.percent[2]

\* C33 witness: an expand over three targets with fraction 1 whose
\* sub-attacks send 3, 2 and 1 of a pool of 10, less than the whole pool.
ExpandDebitsLessThanFraction ==
  /\ last.op = "expand"
  /\ LastId # NULL
  /\ last.args.percent = <<1, 1>>
  /\ Len(last.subs) = 3
  /\ last.subs[1].sent > last.subs[2].sent
  /\ last.subs[2].sent > last.subs[3].sent
  /\ last.subs[3].sent > 0
  /\ prev.players[LastId].troops - players[LastId].troops
       < prev.players[LastId].troops

\* C34: the growth step of a tick leaves no player with a smaller pool than
\* the player had when the tick started.
GrowthNeverDecreases ==
  last.op = "tick"
    => \A p \in DOMAIN prev.players :
         last.grown.players[p].troops >= prev.players[p].troops

====
